---- MODULE Spec2Model ----
(***************************************************************************)
(* Function-Automate: the deferred-action token protocol of PipelinePause  *)
(* (issue) and PipelineRestart (consume) over an Azure table, and the      *)
(* request-parameter helpers get_param and parse_request.                  *)
(***************************************************************************)
EXTENDS Integers, Sequences, FiniteSets, TLC

(***************************************************************************)
(* Python values.  A str is a sequence of one-character strings, so that   *)
(* str.split is computed; literal messages are carried as opaque text.     *)
(***************************************************************************)
PyNone == [t |-> "None"]
PyStr(chars) == [t |-> "str", v |-> chars]
PyInt(n) == [t |-> "int", n |-> n]
PyText(s) == [t |-> "str", text |-> s]
PyTuple(items) == [t |-> "tuple", items |-> items]

\* A key that a dict (query string or JSON object) does not hold.
Absent == [t |-> "absent"]

\* Python truthiness of the values above: `not x` is ~truthy(x).
truthy(x) ==
    /\ x # PyNone
    /\ x # Absent
    /\ x # PyStr(<<>>)
    /\ x # PyInt(0)

\* dict.get(key): the value, or None when the key is missing.
dict_get(d, key) == IF d[key] = Absent THEN PyNone ELSE d[key]

Names ==
    {"user", "subject", "recipients", "body", "mimetype",
     "data", "factory_name", "resource_group", "pipeline_name",
     "expiration_time", "web_path", "share_name", "token"}

EmptyDict == [k \in Names |-> Absent]

\* func.HttpRequest: the query string, and the body (a JSON object or not JSON).
HttpRequest(params, is_json, obj) ==
    [params |-> params, is_json |-> is_json, obj |-> obj]

\* utilities.get_param with the JSON body consulted before the query string.
get_param_body_first(request, param_name) ==
    LET fromBody == IF request.is_json
                    THEN dict_get(request.obj, param_name) ELSE PyNone
        param == IF ~truthy(fromBody)
                 THEN dict_get(request.params, param_name) ELSE fromBody
    IN  IF ~truthy(param) THEN PyNone ELSE param

\* utilities.get_param
get_param(request, param_name) ==
    LET param0 == dict_get(request.params, param_name)
        param == IF ~truthy(param0)
                 THEN IF ~request.is_json
                      THEN PyNone                      \* get_json raised ValueError
                      ELSE dict_get(request.obj, param_name)
                 ELSE param0
    IN  IF ~truthy(param) THEN PyNone ELSE param

\* Index of the first sep in chars, 0 when there is none.
RECURSIVE find(_, _, _)
find(chars, sep, i) ==
    IF i > Len(chars) THEN 0
    ELSE IF chars[i] = sep THEN i
    ELSE find(chars, sep, i + 1)

\* str.split(sep) for a one-character sep: a list (sequence) of str payloads.
RECURSIVE split(_, _)
split(chars, sep) ==
    LET i == find(chars, sep, 1)
    IN  IF i = 0 THEN <<chars>>
        ELSE <<SubSeq(chars, 1, i - 1)>> \o split(SubSeq(chars, i + 1, Len(chars)), sep)

Raised(exc) == [kind |-> "raised", exc |-> exc]
Returned(value) == [kind |-> "returned", value |-> value]

\* HttpEmail.parse_request with the mimetype default dropped.
parse_request_no_default(req) ==
    LET p == [k \in {"user", "subject", "recipients", "body", "mimetype"} |->
                 get_param(req, k)]
    IN  IF ~truthy(p["recipients"]) THEN Raised("KeyError")
        ELSE IF p["recipients"].t # "str" THEN Raised("AttributeError")
        ELSE IF ~truthy(p["user"]) THEN Raised("KeyError")
        ELSE Returned(
            [user |-> p["user"],
             recipients |-> split(p["recipients"].v, ","),
             body |-> IF ~truthy(p["body"]) THEN PyStr(<<>>) ELSE p["body"],
             subject |-> IF ~truthy(p["subject"]) THEN PyStr(<<>>) ELSE p["subject"],
             mimetype |-> p["mimetype"]])

\* HttpEmail.parse_request
parse_request(req) ==
    LET p == [k \in {"user", "subject", "recipients", "body", "mimetype"} |->
                 get_param(req, k)]
    IN  IF ~truthy(p["recipients"]) THEN Raised("KeyError")
        \* a recipients that is no str has no split
        ELSE IF p["recipients"].t # "str" THEN Raised("AttributeError")
        ELSE IF ~truthy(p["user"]) THEN Raised("KeyError")
        ELSE Returned(
            [user |-> p["user"],
             recipients |-> split(p["recipients"].v, ","),
             body |-> IF ~truthy(p["body"]) THEN PyStr(<<>>) ELSE p["body"],
             subject |-> IF ~truthy(p["subject"]) THEN PyStr(<<>>) ELSE p["subject"],
             mimetype |-> IF ~truthy(p["mimetype"])
                          THEN PyStr(<<"p", "l", "a", "i", "n">>) ELSE p["mimetype"]])

(***************************************************************************)
(* azure.functions responses and utilities.exceptions.                     *)
(***************************************************************************)
\* func.HttpResponse(body, status_code=..., mimetype=...): the body must be a
\* str (or bytes); anything else raises TypeError in the constructor.
HttpResponse(body, status_code, mimetype) ==
    IF body.t = "str"
    THEN Returned([body |-> body, status_code |-> status_code, mimetype |-> mimetype])
    ELSE Raised("TypeError")

\* raise exceptions.HttpError(msg, response): the arguments are evaluated first,
\* so a response that could not be built raises its own exception instead.
HttpError(msg, response) ==
    IF response.kind = "raised" THEN response
    ELSE [kind |-> "HttpError", msg |-> msg, response |-> response.value]

\* exceptions.exceptions_as_response: an HttpError becomes its response, any
\* other exception is raised again.
exceptions_as_response(out) ==
    IF out.kind = "HttpError" THEN Returned(out.response) ELSE out

(***************************************************************************)
(* The table PipelinePauseData (partition PauseData), keyed by RowKey.     *)
(***************************************************************************)
\* Tokens a request may carry, and those among them that secrets.token_urlsafe
\* draws in the runs explored (the other one is never issued).
Tokens == {<<"x">>, <<"y">>}
GeneratedTokens == {<<"x">>}
Handlers == {1, 2}

MaxTime == 2
MaxCalls == 2

NoEntity == [t |-> "NoEntity"]

\* TableService.get_entity: the entity, or AzureMissingResourceHttpError.
get_entity(table, row_key) ==
    IF table[row_key] = NoEntity
    THEN Raised("AzureMissingResourceHttpError")
    ELSE Returned(table[row_key])

\* TableService.insert_or_replace_entity, which insert_entity is not: the entity
\* given takes the place of the stored one.
insert_or_replace_entity(table, entity, current_time) ==
    [raised |-> "",
     table |-> [table EXCEPT ![entity.RowKey] =
                   entity @@ [Timestamp |-> current_time, etag |-> 1]]]

\* TableService.insert_entity: fails with AzureConflictHttpError when the key is
\* taken and writes nothing; the service stamps Timestamp and a new etag on
\* every write (the etag is modelled as the number of writes to the entity).
insert_entity(table, entity, current_time) ==
    IF table[entity.RowKey] # NoEntity
    THEN [raised |-> "AzureConflictHttpError", table |-> table]
    ELSE [raised |-> "",
          table |-> [table EXCEPT ![entity.RowKey] =
                        entity @@ [Timestamp |-> current_time, etag |-> 1]]]

\* TableService.update_entity (if_match="*"): replaces the stored entity by the
\* one given, unconditionally: the etag the caller read is not compared with
\* the stored one; the service stamps Timestamp and a new etag.
update_entity(table, entity, current_time) ==
    [table EXCEPT ![entity.RowKey] =
        [entity EXCEPT !.Timestamp = current_time,
                       !.etag = table[entity.RowKey].etag + 1]]

(***************************************************************************)
(* PipelinePause: issue a token and store the paused pipeline's data.      *)
(***************************************************************************)
\* json.dumps(x): a str holding the encoding of x.
json_dumps(x) == [t |-> "str", json |-> x]

PipelineParamNames == {"factory_name", "resource_group", "pipeline_name", "expiration_time"}
WebParamNames == {"web_path", "share_name"}

\* PipelinePause.get_pipeline_params: the message is built as a 1-tuple.
get_pipeline_params(req) ==
    LET pipeline_params == [k \in PipelineParamNames |-> get_param(req, k)]
        msg == PyTuple(<<"One of ['resource_group', 'factory_name', 'pipeline_name', 'expiration_time'] was not found.">>)
    IN  IF \E k \in PipelineParamNames : pipeline_params[k] = PyNone
        THEN HttpError(msg, HttpResponse(msg, 500, "text/plain"))
        ELSE Returned(pipeline_params)

\* PipelinePause.get_notification_web_params: the message is built as a 1-tuple.
get_notification_web_params(req) ==
    LET web_params == [k \in WebParamNames |-> get_param(req, k)]
        msg == PyTuple(<<"One of ['web_path', 'share_name'] was not found.">>)
    IN  IF \E k \in WebParamNames : web_params[k] = PyNone
        THEN HttpError(msg, HttpResponse(msg, 500, "text/plain"))
        ELSE Returned(web_params)

\* PipelinePause.prepare_pipeline_data creating the entry already acted upon.
prepare_pipeline_data_acted(partition_key, token, pipeline_params, notification_web_params, data) ==
    [PartitionKey |-> partition_key,
     RowKey |-> token,
     factory_name |-> pipeline_params["factory_name"],
     resource_group |-> pipeline_params["resource_group"],
     pipeline_name |-> pipeline_params["pipeline_name"],
     expiration_time |-> pipeline_params["expiration_time"],
     data |-> json_dumps(data),
     acted_upon |-> PyInt(1),
     web_path |-> notification_web_params["web_path"],
     share_name |-> notification_web_params["share_name"]]

\* PipelinePause.prepare_pipeline_data
prepare_pipeline_data(partition_key, token, pipeline_params, notification_web_params, data) ==
    [PartitionKey |-> partition_key,
     RowKey |-> token,
     factory_name |-> pipeline_params["factory_name"],
     resource_group |-> pipeline_params["resource_group"],
     pipeline_name |-> pipeline_params["pipeline_name"],
     expiration_time |-> pipeline_params["expiration_time"],
     data |-> json_dumps(data),
     acted_upon |-> PyInt(0),
     web_path |-> notification_web_params["web_path"],
     share_name |-> notification_web_params["share_name"]]

\* PipelinePause.main, decorated: the outcome and the table it leaves, for the
\* token that secrets.token_urlsafe drew.
PipelinePause_main(req, token, table, current_time) ==
    LET data == get_param(req, "data")
        pipeline_params == get_pipeline_params(req)
        notification_web_params == get_notification_web_params(req)
    IN  IF pipeline_params.kind # "returned"
        THEN [out |-> exceptions_as_response(pipeline_params), table |-> table]
        ELSE IF notification_web_params.kind # "returned"
        THEN [out |-> exceptions_as_response(notification_web_params), table |-> table]
        ELSE LET pipeline_data == prepare_pipeline_data(
                     "PauseData", token, pipeline_params.value,
                     notification_web_params.value, data)
                 ins == insert_entity(table, pipeline_data, current_time)
             IN  IF ins.raised # ""
                 THEN [out |-> Raised(ins.raised), table |-> table]
                 ELSE [out |-> HttpResponse(json_dumps([token |-> token]), 200, "text/plain"),
                       table |-> ins.table]

(***************************************************************************)
(* PipelineRestart: consume a token and restart the pipeline.              *)
(***************************************************************************)
\* PipelineRestart.check_if_expired with the boundary instant counted as expired.
check_if_expired_inclusive(timestamp, expiration_time, current_time) ==
    IF expiration_time.t # "int" THEN Raised("TypeError")
    ELSE Returned(current_time >= timestamp + expiration_time.n)

\* PipelineRestart.check_if_expired: timedelta(seconds=...) takes a number only.
check_if_expired(timestamp, expiration_time, current_time) ==
    IF expiration_time.t # "int" THEN Raised("TypeError")
    ELSE Returned(current_time > timestamp + expiration_time.n)

\* PipelineRestart.restart_pipeline that reports a missing pipeline by returning.
restart_pipeline_lenient(available_pipelines, pipeline_name, create_run_ok) ==
    IF pipeline_name \notin available_pipelines \/ ~create_run_ok
    THEN Returned([created |-> FALSE])
    ELSE Returned([created |-> TRUE])

\* PipelineRestart.restart_pipeline: the pipelines the factory lists, and whether
\* create_run goes through, are the data factory's to decide.
restart_pipeline(available_pipelines, pipeline_name, create_run_ok) ==
    LET msg == [t |-> "str",
                text |-> "{pipeline_name} is not available in the data factory.",
                pipeline_name |-> pipeline_name]
    IN  IF pipeline_name \notin available_pipelines
        THEN HttpError(msg, HttpResponse(msg, 500, "text/plain"))
        ELSE IF ~create_run_ok THEN Raised("CloudError")
        ELSE Returned([created |-> TRUE])

\* The response to a token that has no entity, with a success status.
missing_entity_response_ok(e) ==
    HttpError(PyText(e), HttpResponse(PyText(e), 200, "text/plain"))

\* PipelineRestart.main, lines 97-101: str(e) of the storage error, status 500.
missing_entity_response(e) ==
    HttpError(PyText(e), HttpResponse(PyText(e), 500, "text/plain"))

\* PipelineRestart.main, line 157
invalid_token_response == HttpResponse(PyText("Invalid token."), 500, "text/plain")

\* PipelineRestart.main, line 154
confirmation_response == HttpResponse(PyText("confirmation_site"), 200, "text/html")

\* paused_pipeline["acted_upon"] = 1 left out.
mark_acted_upon_skipped(entity) == entity

\* PipelineRestart.main, line 139
mark_acted_upon(entity) == [entity EXCEPT !.acted_upon = PyInt(1)]

\* PipelineRestart.main, line 111, with the expiration test left out.
may_restart_ignoring_expiry(acted_upon, has_expired) == ~truthy(acted_upon)

\* PipelineRestart.main, line 111
may_restart(acted_upon, has_expired) == ~truthy(acted_upon) /\ ~has_expired

(***************************************************************************)
(* Requests the handlers are driven with.                                  *)
(***************************************************************************)
\* expiration_time values (seconds) the issue requests carry
TtlValues == {1, 2}

RequiredNames == PipelineParamNames \cup WebParamNames

FullDict(ttl) ==
    [k \in Names |->
        CASE k = "data" -> PyStr(<<"d">>)
          [] k = "factory_name" -> PyStr(<<"f">>)
          [] k = "resource_group" -> PyStr(<<"g">>)
          [] k = "pipeline_name" -> PyStr(<<"p">>)
          [] k = "expiration_time" -> ttl
          [] k = "web_path" -> PyStr(<<"w">>)
          [] k = "share_name" -> PyStr(<<"s">>)
          [] OTHER -> Absent]

\* Issue requests: everything in a JSON body with a number of seconds; one field
\* left out, or empty; expiration_time 0; everything in the query string (where
\* every value, expiration_time too, is a str).
IssueRequests ==
    {HttpRequest(EmptyDict, TRUE, FullDict(PyInt(n))) : n \in TtlValues}
    \cup {HttpRequest(EmptyDict, TRUE, [FullDict(PyInt(1)) EXCEPT ![f] = Absent]) :
             f \in RequiredNames}
    \cup {HttpRequest(EmptyDict, TRUE, [FullDict(PyInt(1)) EXCEPT ![f] = PyStr(<<>>)]) :
             f \in RequiredNames}
    \cup {HttpRequest(EmptyDict, TRUE, FullDict(PyInt(0)))}
    \cup {HttpRequest(FullDict(PyStr(<<"1">>)), FALSE, EmptyDict)}

\* The issue requests the protocol is driven with: the well-formed ones, and one
\* that lacks a field.
ProtocolIssueRequests ==
    {HttpRequest(EmptyDict, TRUE, FullDict(PyInt(n))) : n \in TtlValues}
    \cup {HttpRequest(FullDict(PyStr(<<"1">>)), FALSE, EmptyDict)}
    \cup {HttpRequest(EmptyDict, TRUE, [FullDict(PyInt(1)) EXCEPT !["pipeline_name"] = Absent])}

\* Consume requests: a token in the query string, or none at all.
ConsumeRequests ==
    {HttpRequest([EmptyDict EXCEPT !["token"] = PyStr(tk)], FALSE, EmptyDict) : tk \in Tokens}
    \cup {HttpRequest(EmptyDict, FALSE, EmptyDict)}

\* Whether the request carries the name at all, in the query string or the body.
Carries(request, name) ==
    \/ request.params[name] # Absent
    \/ request.is_json /\ request.obj[name] # Absent

\* The pipelines the data factory may list.
PipelineNames == {PyStr(<<"p">>)}

(***************************************************************************)
(* State.                                                                  *)
(***************************************************************************)
VARIABLES
    now,               \* the clock (datetime.now / the table service's clock)
    store,             \* the table: RowKey -> entity or NoEntity
    issuedAt,          \* history: when each token's entity was inserted, -1 if never
    issue_last,        \* history: the last PipelinePause call and its outcome
    nCalls,            \* PipelineRestart calls received
    pc,                \* per handler instance: where PipelineRestart.main stands
    token,             \* per handler: main's token
    paused_pipeline,   \* per handler: main's paused_pipeline (its copy of the entity)
    outcome,           \* per handler: what the decorated main returned or raised
    trace,             \* per handler, history of the call in progress
    runs,              \* history: per token, the create_run calls that went through
    calls,             \* history: per token, the PipelineRestart calls received
    executedReturned,  \* history: per token, a call has returned the confirmation
    req,               \* the request the parameter helpers are applied to
    result             \* the last helper call and what it gave

vars ==
    <<now, store, issuedAt, issue_last, nCalls, pc, token, paused_pipeline,
      outcome, trace, runs, calls, executedReturned, req, result>>

protocolVars ==
    <<now, store, issuedAt, issue_last, nCalls, pc, token, paused_pipeline,
      outcome, trace, runs, calls, executedReturned>>

NoOutcome == [kind |-> "none"]
NoResult == [fn |-> "none"]

NoTrace ==
    [late |-> FALSE,           \* received after a call returned the confirmation
     checkedAt |-> -1,         \* the clock read by check_if_expired
     reason |-> "",            \* why the call was turned away
     invoked |-> FALSE,        \* restart_pipeline was called
     markedAtInvoke |-> FALSE, \* the stored entity was acted upon at that moment
     ran |-> FALSE,            \* create_run went through
     fault |-> FALSE,          \* the data factory or the file share failed
     wrote |-> FALSE,          \* update_entity was called
     stale |-> FALSE]          \* the stored etag had moved on since the read

ProtocolInit ==
    /\ now = 0
    /\ store = [tk \in Tokens |-> NoEntity]
    /\ issuedAt = [tk \in Tokens |-> -1]
    /\ issue_last = [absent |-> FALSE, inserted |-> FALSE, out |-> NoOutcome]
    /\ nCalls = 0
    /\ pc = [h \in Handlers |-> "idle"]
    /\ token = [h \in Handlers |-> PyNone]
    /\ paused_pipeline = [h \in Handlers |-> NoEntity]
    /\ outcome = [h \in Handlers |-> NoOutcome]
    /\ trace = [h \in Handlers |-> NoTrace]
    /\ runs = [tk \in Tokens |-> 0]
    /\ calls = [tk \in Tokens |-> 0]
    /\ executedReturned = [tk \in Tokens |-> FALSE]

Init ==
    /\ ProtocolInit
    /\ req = HttpRequest(EmptyDict, FALSE, EmptyDict)
    /\ result = NoResult

(***************************************************************************)
(* Actions.                                                                *)
(***************************************************************************)
\* Time passes.
Tick ==
    /\ now < MaxTime
    /\ now' = now + 1
    /\ UNCHANGED <<store, issuedAt, issue_last, nCalls, pc, token,
                   paused_pipeline, outcome, trace, runs, calls, executedReturned,
                   req, result>>

\* One PipelinePause call: its only access to the table is the insert.
Issue(requests, generated) ==
    /\ \E r \in requests, tk \in generated :
          LET res == PipelinePause_main(r, tk, store, now)
          IN  /\ store' = res.table
              /\ issue_last' = [absent |-> \E f \in RequiredNames : ~Carries(r, f),
                                inserted |-> res.table # store,
                                out |-> res.out]
              /\ issuedAt' = IF res.table # store
                             THEN [issuedAt EXCEPT ![tk] = now] ELSE issuedAt
    /\ UNCHANGED <<now, nCalls, pc, token, paused_pipeline, outcome, trace, runs,
                   calls, executedReturned, req, result>>

\* PipelineRestart.main, lines 84-101: a handler instance receives a request and
\* reads the token's entity.  The instances are stateless and alike: a request
\* goes to the first idle one.
GetEntity(h) ==
    /\ pc[h] = "idle"
    /\ \A g \in Handlers : pc[g] = "idle" => h <= g
    /\ nCalls < MaxCalls
    /\ nCalls' = nCalls + 1
    /\ \E r \in ConsumeRequests :
          LET tok == get_param(r, "token")
              received == [NoTrace EXCEPT !.late = tok # PyNone /\ executedReturned[tok.v]]
          IN  /\ token' = [token EXCEPT ![h] = tok]
              /\ calls' = IF tok = PyNone THEN calls ELSE [calls EXCEPT ![tok.v] = @ + 1]
              /\ IF tok = PyNone
                 THEN \* get_entity refuses a row_key of None
                      /\ outcome' = [outcome EXCEPT ![h] = Raised("ValueError")]
                      /\ trace' = [trace EXCEPT ![h] = received]
                      /\ pc' = [pc EXCEPT ![h] = "done"]
                      /\ UNCHANGED paused_pipeline
                 ELSE LET got == get_entity(store, tok.v)
                      IN  IF got.kind = "raised"
                          THEN /\ outcome' = [outcome EXCEPT ![h] =
                                      exceptions_as_response(missing_entity_response(got.exc))]
                               /\ trace' = [trace EXCEPT ![h] =
                                      [received EXCEPT !.reason = "InvalidToken"]]
                               /\ pc' = [pc EXCEPT ![h] = "done"]
                               /\ UNCHANGED paused_pipeline
                          ELSE /\ paused_pipeline' = [paused_pipeline EXCEPT ![h] = got.value]
                               /\ trace' = [trace EXCEPT ![h] = received]
                               /\ pc' = [pc EXCEPT ![h] = "check"]
                               /\ UNCHANGED outcome
    /\ UNCHANGED <<now, store, issuedAt, issue_last, runs, executedReturned, req, result>>

\* PipelineRestart.main, lines 105-111 and 156-157: read the clock and decide.
Check(h) ==
    /\ pc[h] = "check"
    /\ LET acted_upon == paused_pipeline[h].acted_upon
           has_expired == check_if_expired(paused_pipeline[h].Timestamp,
                                           paused_pipeline[h].expiration_time, now)
       IN  IF has_expired.kind = "raised"
           THEN /\ outcome' = [outcome EXCEPT ![h] = has_expired]
                /\ trace' = [trace EXCEPT ![h].checkedAt = now]
                /\ pc' = [pc EXCEPT ![h] = "done"]
           ELSE IF may_restart(acted_upon, has_expired.value)
           THEN /\ trace' = [trace EXCEPT ![h].checkedAt = now]
                /\ pc' = [pc EXCEPT ![h] = "restart"]
                /\ UNCHANGED outcome
           ELSE /\ outcome' = [outcome EXCEPT ![h] =
                       exceptions_as_response(invalid_token_response)]
                /\ trace' = [trace EXCEPT ![h].checkedAt = now,
                                          ![h].reason = IF has_expired.value
                                                        THEN "Expired"
                                                        ELSE "AlreadyConsumed"]
                /\ pc' = [pc EXCEPT ![h] = "done"]
    /\ UNCHANGED <<now, store, issuedAt, issue_last, nCalls, token,
                   paused_pipeline, runs, calls, executedReturned, req, result>>

\* PipelineRestart.main, lines 118-136: restart_pipeline.
Restart(h) ==
    /\ pc[h] = "restart"
    /\ \E available_pipelines \in SUBSET PipelineNames, create_run_ok \in BOOLEAN :
          LET r == restart_pipeline(available_pipelines,
                                    paused_pipeline[h].pipeline_name, create_run_ok)
              created == r.kind = "returned" /\ r.value.created
          IN  /\ trace' = [trace EXCEPT
                              ![h].invoked = TRUE,
                              ![h].markedAtInvoke =
                                  store[token[h].v].acted_upon = PyInt(1),
                              ![h].ran = created,
                              ![h].fault = ~created]
              /\ runs' = IF created THEN [runs EXCEPT ![token[h].v] = @ + 1] ELSE runs
              /\ IF r.kind = "returned"
                 THEN /\ pc' = [pc EXCEPT ![h] = "update"]
                      /\ UNCHANGED outcome
                 ELSE /\ outcome' = [outcome EXCEPT ![h] = exceptions_as_response(r)]
                      /\ pc' = [pc EXCEPT ![h] = "done"]
    /\ UNCHANGED <<now, store, issuedAt, issue_last, nCalls, token,
                   paused_pipeline, calls, executedReturned, req, result>>

\* PipelineRestart.main, lines 138-140: mark the entity and write it back.
Update(h) ==
    /\ pc[h] = "update"
    /\ paused_pipeline' = [paused_pipeline EXCEPT ![h] = mark_acted_upon(@)]
    /\ store' = update_entity(store, paused_pipeline'[h], now)
    /\ trace' = [trace EXCEPT
                    ![h].wrote = TRUE,
                    ![h].stale = store[token[h].v].etag # paused_pipeline[h].etag]
    /\ pc' = [pc EXCEPT ![h] = "download"]
    /\ UNCHANGED <<now, issuedAt, issue_last, nCalls, token, outcome, runs,
                   calls, executedReturned, req, result>>

\* PipelineRestart.main, lines 142-154: fetch the confirmation page and return it.
Download(h) ==
    /\ pc[h] = "download"
    /\ \E download_ok \in BOOLEAN :
          IF download_ok
          THEN /\ outcome' = [outcome EXCEPT ![h] = confirmation_response]
               /\ executedReturned' = [executedReturned EXCEPT ![token[h].v] = TRUE]
               /\ UNCHANGED trace
          ELSE /\ outcome' = [outcome EXCEPT ![h] = Raised("ResourceNotFoundError")]
               /\ trace' = [trace EXCEPT ![h].fault = TRUE]
               /\ UNCHANGED executedReturned
    /\ pc' = [pc EXCEPT ![h] = "done"]
    /\ UNCHANGED <<now, store, issuedAt, issue_last, nCalls, token,
                   paused_pipeline, runs, calls, req, result>>

\* The response is out; the instance is free for another request.
Return(h) ==
    /\ pc[h] = "done"
    /\ pc' = [pc EXCEPT ![h] = "idle"]
    /\ token' = [token EXCEPT ![h] = PyNone]
    /\ paused_pipeline' = [paused_pipeline EXCEPT ![h] = NoEntity]
    /\ outcome' = [outcome EXCEPT ![h] = NoOutcome]
    /\ trace' = [trace EXCEPT ![h] = NoTrace]
    /\ UNCHANGED <<now, store, issuedAt, issue_last, nCalls, runs, calls,
                   executedReturned, req, result>>

Next ==
    \/ Tick
    \/ Issue(ProtocolIssueRequests, GeneratedTokens)
    \/ \E h \in Handlers : GetEntity(h)
    \/ \E h \in Handlers : Check(h)
    \/ \E h \in Handlers : Restart(h)
    \/ \E h \in Handlers : Update(h)
    \/ \E h \in Handlers : Download(h)
    \/ \E h \in Handlers : Return(h)

Spec == Init /\ [][Next]_vars

\* PipelinePause alone, over every issue request and every token.
NextIssue ==
    \/ Tick
    \/ Issue(IssueRequests, Tokens)

SpecIssue == Init /\ [][NextIssue]_vars

(***************************************************************************)
(* The parameter helpers, applied to a request.                            *)
(***************************************************************************)
EmailNames == {"user", "subject", "recipients", "body", "mimetype"}

QueryValues(name) ==
    CASE name = "user" -> {Absent, PyStr(<<>>), PyStr(<<"u">>)}
      [] name = "subject" -> {Absent, PyStr(<<>>), PyStr(<<"s">>)}
      [] name = "recipients" ->
            {Absent, PyStr(<<>>), PyStr(<<"a", ",", "b">>), PyStr(<<"a", ",">>)}
      [] name = "body" -> {Absent, PyStr(<<"b">>)}
      [] name = "mimetype" -> {Absent, PyStr(<<>>), PyStr(<<"h">>)}
      [] OTHER -> {Absent}

JsonValues(name) ==
    CASE name = "user" -> {Absent, PyStr(<<"v">>)}
      [] name = "subject" -> {Absent, PyInt(0)}
      [] name = "recipients" -> {Absent, PyStr(<<"c">>), PyInt(5)}
      [] name = "mimetype" -> {Absent, PyStr(<<"p">>)}
      [] OTHER -> {Absent}

EmailDict(user, subject, recipients, body, mimetype) ==
    [k \in Names |->
        CASE k = "user" -> user
          [] k = "subject" -> subject
          [] k = "recipients" -> recipients
          [] k = "body" -> body
          [] k = "mimetype" -> mimetype
          [] OTHER -> Absent]

QueryDicts ==
    {EmailDict(u, s, r, b, m) :
        u \in QueryValues("user"), s \in QueryValues("subject"),
        r \in QueryValues("recipients"), b \in QueryValues("body"),
        m \in QueryValues("mimetype")}

JsonDicts ==
    {EmailDict(u, s, r, b, m) :
        u \in JsonValues("user"), s \in JsonValues("subject"),
        r \in JsonValues("recipients"), b \in JsonValues("body"),
        m \in JsonValues("mimetype")}

ParseRequests ==
    {HttpRequest(q, TRUE, j) : q \in QueryDicts, j \in JsonDicts}
    \cup {HttpRequest(q, FALSE, EmptyDict) : q \in QueryDicts}

InitParse ==
    /\ ProtocolInit
    /\ req \in ParseRequests
    /\ result = NoResult

CallGetParam ==
    /\ \E name \in EmailNames \cup {"token"} :
          result' = [fn |-> "get_param", name |-> name, ret |-> get_param(req, name)]
    /\ UNCHANGED <<protocolVars, req>>

CallParseRequest ==
    /\ result' = [fn |-> "parse_request", out |-> parse_request(req)]
    /\ UNCHANGED <<protocolVars, req>>

NextParse ==
    \/ CallGetParam
    \/ CallParseRequest

SpecParse == InitParse /\ [][NextParse]_vars

(***************************************************************************)
(* Properties.                                                             *)
(***************************************************************************)
\* The row key of the call handler h is serving (when it carries a token).
Key(h) == token[h].v

\* The call of handler h carries a token whose entity counts seconds.
Timed(h) ==
    /\ token[h] # PyNone
    /\ paused_pipeline[h] # NoEntity
    /\ paused_pipeline[h].expiration_time.t = "int"

Rejection == exceptions_as_response(invalid_token_response)

\* C1: for every token, whatever the interleaving of the consume calls, the
\* pipeline restart goes through at most once.
C1_AtMostOneExecution == \A tk \in Tokens : runs[tk] <= 1

\* C2 as stated (mark-then-execute): restart_pipeline is called only once the
\* stored entity is marked acted upon, and a call whose restart failed leaves the
\* token consumed.
C2_MarkThenExecute ==
    \A h \in Handlers :
        /\ trace[h].invoked => trace[h].markedAtInvoke
        /\ (pc[h] = "done" /\ trace[h].invoked /\ ~trace[h].ran)
              => store[Key(h)].acted_upon = PyInt(1)

\* C2 amended (execute-then-mark): a consume call writes acted_upon = 1 only
\* after its own restart_pipeline call went through; a call whose restart failed
\* ends there, writes nothing to the table, and surfaces the failure as an error
\* that is neither the confirmation nor the "Invalid token." rejection.
C2_ExecuteThenMark ==
    \A h \in Handlers :
        /\ trace[h].wrote => trace[h].ran
        /\ (trace[h].invoked /\ ~trace[h].ran) =>
              /\ pc[h] = "done"
              /\ ~trace[h].wrote
              /\ outcome[h] # confirmation_response
              /\ outcome[h] # Rejection
              /\ \/ outcome[h].kind = "raised"
                 \/ outcome[h].kind = "returned" /\ outcome[h].value.status_code = 500

\* A restart failed and the token is still not consumed.
C2_Witness ==
    \E h \in Handlers :
        /\ pc[h] = "done" /\ trace[h].invoked /\ ~trace[h].ran
        /\ store[Key(h)].acted_upon = PyInt(0)

\* C3: a consume call that reads the clock past createdAt + ttlSeconds is turned
\* away with the rejection response, consumed or not, without calling
\* restart_pipeline and without writing the table; a call at or before
\* Timestamp + expiration_time is not treated as expired.
C3_ExpiredNeverExecutes ==
    \A h \in Handlers :
        (Timed(h) /\ trace[h].checkedAt >= 0) =>
            LET ttl == paused_pipeline[h].expiration_time.n
            IN  /\ trace[h].checkedAt > issuedAt[Key(h)] + ttl =>
                      /\ pc[h] = "done"
                      /\ outcome[h] = Rejection
                      /\ ~trace[h].invoked
                      /\ ~trace[h].wrote
                /\ trace[h].checkedAt <= paused_pipeline[h].Timestamp + ttl =>
                      trace[h].reason # "Expired"

\* A never-consumed token was presented after its expiration and turned away.
C3_Witness ==
    \E h \in Handlers :
        /\ Timed(h) /\ pc[h] = "done"
        /\ trace[h].checkedAt > issuedAt[Key(h)] + paused_pipeline[h].expiration_time.n
        /\ paused_pipeline[h].acted_upon = PyInt(0)
        /\ store[Key(h)].acted_upon = PyInt(0)
        /\ outcome[h] = Rejection

\* C4: once a consume of a token has returned the confirmation, every consume of
\* that token received later is turned away without calling restart_pipeline,
\* as already consumed when the token is unexpired.
C4_LaterConsumeRejected ==
    \A h \in Handlers :
        trace[h].late =>
            /\ ~trace[h].invoked
            /\ ~trace[h].wrote
            /\ pc[h] \in {"check", "done"}
            /\ pc[h] = "done" =>
                  /\ outcome[h] = Rejection
                  /\ trace[h].checkedAt
                        <= paused_pipeline[h].Timestamp + paused_pipeline[h].expiration_time.n
                     => trace[h].reason = "AlreadyConsumed"

\* A second, later consume of an executed, unexpired token was turned away.
C4_Witness ==
    \E h \in Handlers :
        /\ trace[h].late /\ pc[h] = "done"
        /\ trace[h].reason = "AlreadyConsumed"
        /\ runs[Key(h)] = 1

C6_UnknownTokenRejected ==
    \A h \in Handlers :
        (pc[h] # "idle" /\ token[h] # PyNone /\ paused_pipeline[h] = NoEntity) =>
            /\ pc[h] = "done"
            /\ trace[h].reason = "InvalidToken"
            /\ outcome[h].kind = "returned"
            /\ outcome[h].value.status_code = 500
            /\ ~trace[h].invoked
            /\ ~trace[h].wrote

\* An unknown token was presented and turned away; it still has no entity.
C6_Witness ==
    \E h \in Handlers :
        /\ pc[h] = "done" /\ trace[h].reason = "InvalidToken"
        /\ store[Key(h)] = NoEntity
        /\ outcome[h].kind = "returned"

\* C7: every rejection (unknown, expired, already consumed) gives the same
\* response: the failure status with the literal message "Invalid token.".
C7_UniformRejection ==
    \A h \in Handlers :
        (pc[h] = "done" /\ trace[h].reason \in {"InvalidToken", "Expired", "AlreadyConsumed"})
            => outcome[h] = Rejection

\* C8: an issue request lacking a required field gets a client-error response
\* with a message, no token, and no entity is inserted; a request carrying all
\* of them gets the entity inserted and {"token": ...} with a success status.
C8_IssueValidation ==
    issue_last.out.kind # "none" =>
        IF issue_last.absent
        THEN /\ issue_last.out.kind = "returned"
             /\ issue_last.out.value.status_code \in 400..499
             /\ "text" \in DOMAIN issue_last.out.value.body
             /\ ~issue_last.inserted
        ELSE /\ issue_last.inserted
             /\ issue_last.out.kind = "returned"
             /\ issue_last.out.value.status_code = 200
             /\ "json" \in DOMAIN issue_last.out.value.body

\* The value the request carries for the name, the query string first.
Supplied(request, name) ==
    IF request.params[name] # Absent THEN request.params[name]
    ELSE IF request.is_json /\ request.obj[name] # Absent THEN request.obj[name]
    ELSE PyNone

\* The non-empty (truthy) value the request carries, the query string first.
Found(request, name) ==
    IF truthy(request.params[name]) THEN request.params[name]
    ELSE IF request.is_json /\ truthy(request.obj[name]) THEN request.obj[name]
    ELSE PyNone

EmailDefault(name) ==
    IF name = "mimetype" THEN PyStr(<<"p", "l", "a", "i", "n">>) ELSE PyStr(<<>>)

Overtaken(h) ==
    /\ Timed(h)
    /\ ~trace[h].wrote
    /\ store[Key(h)].etag # paused_pipeline[h].etag

C11_CompareAndSet ==
    \A h \in Handlers :
        /\ ~trace[h].stale
        /\ Overtaken(h) => ~trace[h].invoked /\ pc[h] # "update"

(***************************************************************************)
(* C12: the expiration instant is fixed when the entity is inserted: the   *)
(* Timestamp stored for a token, and the Timestamp a consume call reads    *)
(* and hands to check_if_expired, is the time of the insert, whatever      *)
(* issue and consume calls have happened since.                            *)
(***************************************************************************)
C12_TimestampFixedAtIssue ==
    /\ \A tk \in Tokens :
          store[tk] # NoEntity => store[tk].Timestamp = issuedAt[tk]
    /\ \A h \in Handlers :
          paused_pipeline[h] # NoEntity =>
              paused_pipeline[h].Timestamp = issuedAt[Key(h)]

(***************************************************************************)
(* C13: acted_upon only ever goes from 0 to 1.  An entity enters the table *)
(* with acted_upon = 0, and once the stored acted_upon is 1 no step of any *)
(* issue or consume call, the write-back of an entity read before another  *)
(* call marked it included, stores 0 again or removes the entity.          *)
(***************************************************************************)
Consumed(table, tk) == table[tk] # NoEntity /\ table[tk].acted_upon = PyInt(1)

C13_ActedUponMonotonic ==
    [][\A tk \in Tokens :
          /\ store[tk] = NoEntity /\ store'[tk] # NoEntity =>
                 store'[tk].acted_upon = PyInt(0)
          /\ store[tk] # NoEntity => store'[tk] # NoEntity
          /\ Consumed(store, tk) => Consumed(store', tk)]_vars

\* A call wrote back the entity it had read before another call marked it, and
\* the stored entity is still marked.
C13_Witness ==
    \E h \in Handlers :
        /\ Timed(h)
        /\ trace[h].wrote
        /\ trace[h].stale
        /\ paused_pipeline[h].etag = 1
        /\ store[Key(h)].etag = 3
        /\ Consumed(store, Key(h))

(***************************************************************************)
(* C14: when the token drawn by an issue call already keys an entity, the  *)
(* insert reports the conflict and leaves the table as it was, and the     *)
(* call draws again: it does not end on the conflict while a token that    *)
(* keys no entity is left to draw.                                         *)
(***************************************************************************)
Collided == issue_last.out.kind = "raised" /\ issue_last.out.exc = "AzureConflictHttpError"

C14_CollisionRetried ==
    Collided =>
        /\ ~issue_last.inserted
        /\ \A tk \in Tokens : store[tk] # NoEntity
====
